---- MODULE Spec2Model ----
(***************************************************************************)
(* Stamp layout engine of madstamp-automation.                             *)
(*                                                                         *)
(* The model covers the stamp generators                                   *)
(*   src/stamp-generator/square/stamp_square.py  (SquareStampGenerator)    *)
(*   src/stamp-generator/circle/stamp_generator.py (CircleStampGenerator)  *)
(*   src/scripts/generate_stamp_icon.py          (StampIconGenerator)      *)
(* One generator object is alive at a time; `shape` says of which class.   *)
(*                                                                         *)
(* Arithmetic.  The code mixes Python ints and floats.  Every float the    *)
(* code builds is a rational with denominator dividing 100 (halves from    *)
(* "/ 2", hundredths from "r * 0.26") until it is truncated by int(), so   *)
(* coordinates are kept as integers in units of 1/Scale pixel and every    *)
(* int(...) is a floor of an exact quotient.  The two square roots         *)
(* (_draw_4char, _draw_5char) are floors of irrational numbers, computed   *)
(* by exact comparison of squares.                                         *)
(***************************************************************************)
EXTENDS Integers, Sequences, FiniteSets, TLC

VARIABLES
    shape,          \* class of the generator object: "circle", "square", "icon"
    size, cx, cy,   \* its fields self.size, self.cx, self.cy (icon: self.center)
    op,             \* the last call made on it: "init", "create_stamp",
                    \* "get_layout", "generate"
    err,            \* the exception that call raised, "none" if it returned
    char_count,     \* len(text) of that call
    layout_3char,   \* the layout_3char argument of that call (circle)
    bbox,           \* the ink bounds the font answered during that call
    inner_radius,   \* create_stamp's local inner_radius (circle), else 0
    inner_size,     \* create_stamp's local inner_size (square), else 0
    layout,         \* the row plan get_layout returned (square), else << >>
    char_size, gap, font_size,  \* locals of _draw_chars / _draw_<n>char
    positions,      \* target centres in drawing order, [ch, x, y] in 1/Scale px
    draws,          \* the origins handed to draw.text, in 1/Scale px
    texture,        \* the noise add_stamp_texture drew (icon), else "none"
    outline,        \* the box of the boundary outline that call stroked
    kept,           \* an earlier call's inputs and layout, held by the caller
    inflight,       \* per concurrent caller: the locals of its create_stamp call
    vm,             \* the VersionManager: self.orders and its last call
    pipe            \* the PipelineResult of _process_email and where the call is

vars == <<shape, size, cx, cy, op, err, char_count, layout_3char, bbox,
          inner_radius, inner_size, layout, char_size, gap, font_size,
          positions, draws, texture, outline, kept, inflight, vm, pipe>>

\* ------------------------------------------------------------------ bounds
MaxChars == 25
MaxSizeSteps == 4
MinSize == 40
SizeStep == 41
DefaultSize == 1024
RoundingSize == 170
Scale == 100

\* glyph ink bounds (left, top, right, bottom) the font may answer to
\* draw.textbbox((0, 0), char, font): the engine does not choose them
InkBounds == {<<0, 0, 0, 0>>, <<2, 5, 10, 15>>}

Sizes ==
    {MinSize + k * SizeStep : k \in 0..MaxSizeSteps} \cup {RoundingSize, DefaultSize}
CharCounts == 0..MaxChars
Variants == {"horizontal", "vertical"}

\* the default of create_stamp's layout_3char parameter (circle)
DefaultLayout3Char == "horizontal"

\* ----------------------------------------------------------------- helpers
Min(a, b) == IF a <= b THEN a ELSE b
Max(a, b) == IF a >= b THEN a ELSE b
Abs(a) == IF a < 0 THEN -a ELSE a

RECURSIVE SumSeq(_)
SumSeq(s) == IF s = <<>> THEN 0 ELSE Head(s) + SumSeq(Tail(s))

RECURSIVE MaxSeq(_)
MaxSeq(s) == IF Len(s) = 1 THEN s[1] ELSE Max(Head(s), MaxSeq(Tail(s)))

\* a * x as a two-limb number <<high, low>> in base 4096 (a < 2^24, x < 2^18):
\* the products under the square roots do not fit TLC's 32-bit integers.
Big(a, x) ==
    LET h == (a \div 4096) * x
        l == (a % 4096) * x
    IN  <<h + (l \div 4096), l % 4096>>

BigLeq(p, q) == p[1] < q[1] \/ (p[1] = q[1] /\ p[2] <= q[2])

\* the largest c in lo..hi with a*c^2 <= b*r^2, by bisection (it holds at lo)
RECURSIVE Bisect(_, _, _, _, _)
Bisect(a, b, r, lo, hi) ==
    IF lo >= hi THEN lo
    ELSE LET mid == (lo + hi + 1) \div 2
         IN  IF BigLeq(Big(a, mid * mid), Big(b, r * r))
             THEN Bisect(a, b, r, mid, hi)
             ELSE Bisect(a, b, r, lo, mid - 1)

\* floor(r * sqrt(b / a)) for b < a and r >= 0
FloorSqrtRatio(a, b, r) == Bisect(a, b, r, 0, r)

\* math.floor(math.sqrt(n)) in place of the ceiling
FloorSqrt(n) == CHOOSE c \in 0..n : c * c <= n /\ (c + 1) * (c + 1) > n

\* math.ceil(math.sqrt(n)) for n >= 0
CeilSqrt(n) == CHOOSE c \in 0..n : c * c >= n /\ (c = 0 \/ (c - 1) * (c - 1) < n)

\* math.ceil(a / b) for a >= 0, b > 0
CeilDiv(a, b) == (a + b - 1) \div b

\* ------------------------------------------------ SquareStampGenerator
\* the `layouts` dict of get_layout
layouts ==
    [n \in 4..20 |->
        CASE n = 4  -> <<2, 2>>
          [] n = 5  -> <<2, 3>>
          [] n = 6  -> <<3, 3>>
          [] n = 7  -> <<3, 4>>
          [] n = 8  -> <<4, 4>>
          [] n = 9  -> <<3, 3, 3>>
          [] n = 10 -> <<3, 4, 3>>
          [] n = 11 -> <<3, 4, 4>>
          [] n = 12 -> <<4, 4, 4>>
          [] n = 13 -> <<4, 5, 4>>
          [] n = 14 -> <<4, 5, 5>>
          [] n = 15 -> <<5, 5, 5>>
          [] n = 16 -> <<4, 4, 4, 4>>
          [] n = 17 -> <<4, 4, 5, 4>>
          [] n = 18 -> <<4, 5, 5, 4>>
          [] n = 19 -> <<4, 5, 5, 5>>
          [] n = 20 -> <<5, 5, 5, 5>>]

\* the loop of _auto_layout from row r on, `remaining` characters left
RECURSIVE AutoRows(_, _, _, _)
AutoRows(r, rows, cols, remaining) ==
    IF r >= rows THEN <<>>
    ELSE IF r = rows - 1 THEN <<remaining>>
    ELSE LET row_count == Min(cols, remaining)
         IN  <<row_count>> \o AutoRows(r + 1, rows, cols, remaining - row_count)

\* _auto_layout with the last row filled like the others
AutoLayoutFullLastRow(n) ==
    LET cols == CeilSqrt(n)
        rows == CeilDiv(n, cols)
    IN  [r \in 1..rows |-> cols]

\* _auto_layout(n) for n >= 1 (n = 0 divides by zero, see GetLayoutRaises)
AutoLayout(n) ==
    LET cols == CeilSqrt(n)
        rows == CeilDiv(n, cols)
    IN  AutoRows(0, rows, cols, n)

\* get_layout raises ZeroDivisionError for char_count = 0: the default
\* argument self._auto_layout(char_count) is evaluated before dict.get.
GetLayoutRaises(n) == CeilSqrt(n) = 0

\* get_layout whose lookup never hits the table
GetLayoutNoTable(n) == AutoLayout(n)

GetLayoutValue(n) ==
    IF n \in DOMAIN layouts THEN layouts[n]
    ELSE AutoLayout(n)

\* create_stamp: margin = int(size * 0.03), border_width = int(size * 0.035)
SquareMargin(sz) == (sz * 3) \div 100
SquareBorderWidth(sz) == (sz * 35) \div 1000

\* inner_margin = margin + border_width + int(size * 0.02)
InnerMargin(sz) == SquareMargin(sz) + SquareBorderWidth(sz) + ((sz * 2) \div 100)

\* inner_size = size - 2 * inner_margin
InnerSize(sz) == sz - 2 * InnerMargin(sz)

\* _draw_chars: char_size = int(min(inner/(max_cols + (max_cols-1)*0.02),
\*                                  inner/(num_rows + (num_rows-1)*0.02)))
CharSizeBy(inner, k) == (inner * 50) \div (50 * k + (k - 1))

\* char_size from the row count alone
SquareCharSizeByRows(inner, lay) == CharSizeBy(inner, Len(lay))

\* char_size kept on the object from the call before
SquareCharSizeCached(inner, lay) ==
    IF char_size > 0 THEN char_size
    ELSE Min(CharSizeBy(inner, MaxSeq(lay)), CharSizeBy(inner, Len(lay)))

SquareCharSize(inner, lay) ==
    Min(CharSizeBy(inner, MaxSeq(lay)), CharSizeBy(inner, Len(lay)))

\* gap rounded to the nearest pixel instead of truncated
SquareGapRounded(cs) == (cs * 2 + 50) \div 100

\* gap = int(char_size * 0.02)
SquareGap(cs) == (cs * 2) \div 100

\* font_size = int(char_size * 0.92)
SquareFontSize(cs) == (cs * 92) \div 100

\* start_y without the half cell: cy - total_height / 2
StartYTopEdge(ycen, num_rows, cs, g) ==
    Scale * ycen - (Scale \div 2) * (num_rows * cs + (num_rows - 1) * g)

\* start_y = cy - total_height / 2 + char_size / 2      (in 1/Scale px)
StartY(ycen, num_rows, cs, g) ==
    LET total_height == num_rows * cs + (num_rows - 1) * g
    IN  Scale * ycen - (Scale \div 2) * total_height + (Scale \div 2) * cs

\* start_x without the half cell: cx - row_width / 2
StartXLeftEdge(xcen, row_count, cs, g) ==
    Scale * xcen - (Scale \div 2) * (row_count * cs + (row_count - 1) * g)

\* start_x = cx - row_width / 2 + char_size / 2         (in 1/Scale px)
StartX(xcen, row_count, cs, g) ==
    LET row_width == row_count * cs + (row_count - 1) * g
    IN  Scale * xcen - (Scale \div 2) * row_width + (Scale \div 2) * cs

\* number of slots in rows 1..i of the plan
RECURSIVE SlotsBefore(_, _)
SlotsBefore(lay, i) == IF i = 0 THEN 0 ELSE lay[i] + SlotsBefore(lay, i - 1)

\* row (1-based) holding the k-th slot (1-based) of the plan
RowOfSlot(lay, k) ==
    CHOOSE i \in 1..Len(lay) : SlotsBefore(lay, i - 1) < k /\ k <= SlotsBefore(lay, i)

\* The double loop of _draw_chars.  char_idx advances once per drawn
\* character and the inner loop breaks when char_idx >= len(chars), so the
\* characters drawn are the first min(len(chars), sum(layout)) slots.
DrawChars(n, lay, xcen, ycen, cs, g) ==
    LET drawn == Min(n, SumSeq(lay))
    IN  [k \in 1..drawn |->
            LET row == RowOfSlot(lay, k)
                row_idx == row - 1
                col_idx == k - SlotsBefore(lay, row - 1) - 1
            IN  [ch |-> k,
                 x  |-> StartX(xcen, lay[row], cs, g) + col_idx * Scale * (cs + g),
                 y  |-> StartY(ycen, Len(lay), cs, g) + row_idx * Scale * (cs + g)]]

\* create_stamp: draw.rectangle([margin, margin, size - margin, size - margin])
SquareOutline(sz) ==
    <<SquareMargin(sz), SquareMargin(sz), sz - SquareMargin(sz), sz - SquareMargin(sz)>>

\* bbox centre is put on the target: draw = target - ((l + r) / 2, (t + b) / 2)
DrawOrigin(p, bb) ==
    <<p.x - (Scale \div 2) * (bb[1] + bb[3]),
      p.y - (Scale \div 2) * (bb[2] + bb[4])>>

\* ------------------------------------------------ CircleStampGenerator
\* create_stamp: margin, radius, border_width, inner_radius
CircleMargin(sz) == (sz * 3) \div 100
CircleRadius(sz) == (sz \div 2) - CircleMargin(sz)
CircleBorderWidth(sz) == (sz * 35) \div 1000
InnerRadius(sz) ==
    CircleRadius(sz) - (CircleBorderWidth(sz) \div 2) - ((sz * 2) \div 100)

\* create_stamp: draw.ellipse([cx - radius, cy - radius, cx + radius, cy + radius])
CircleOutline(sz, xcen, ycen) ==
    <<xcen - CircleRadius(sz), ycen - CircleRadius(sz),
      xcen + CircleRadius(sz), ycen + CircleRadius(sz)>>

\* font_size = int(char_size * 0.95)
CircleFontSize(cs) == (cs * 95) \div 100

\* the largest power of two e * 2^i that is <= n
RECURSIVE BinadeOf(_, _)
BinadeOf(n, e) == IF 2 * e <= n THEN BinadeOf(n, 2 * e) ELSE e

\* _draw_1char: char_size = int(radius * 2 * 0.82), in double precision.
\* The double nearest 0.82 is 0.82 - 0.44 / 2^53, so the product is
\* 1.64 radius - 0.88 radius / 2^53 before rounding.  Where 1.64 radius is a
\* whole number N in the binade [B, 2 B), doubles just below N are B / 2^52
\* apart, and the product rounds to the double below N, which int() then
\* truncates to N - 1, when 0.88 radius / 2^53 > B / 2^53.  Elsewhere the
\* result is the floor of 1.64 radius.
CharSize1(radius) ==
    LET exact == (radius * 2 * 82) \div 100
        whole == radius > 0 /\ (radius * 2 * 82) % 100 = 0
    IN  IF whole /\ 2 * radius * 44 > 100 * BinadeOf(exact, 1)
        THEN exact - 1
        ELSE exact

\* _draw_2char: char_size = int(radius * 2 * 0.85 / (2 + 0.02))
CharSize2(radius) == (radius * 2 * 85) \div 202

\* _draw_3char_* dividing by the 2-character denominator (2 + 2 * 0.02)
CharSize3TwoCells(radius) == (radius * 2 * 92) \div 204

\* _draw_3char_*: char_size = int(radius * 2 * 0.92 / (3 + 2 * 0.02))
CharSize3(radius) == (radius * 2 * 92) \div 304

\* _draw_4char: char_size = int(radius * sqrt(2) * 0.88 / (2 + 0.01)),
\* the largest c with (201 c)^2 <= 2 (88 radius)^2
CharSize4(radius) == FloorSqrtRatio(201 * 201, 2 * 88 * 88, radius)

\* _draw_5char: char_size = int(sqrt(r^2 - (0.26 r)^2) * 2 * 0.92 / (3 + 0.02)),
\* the largest c with (302 c)^2 <= 184^2 * 0.9324 * r^2; both sides over 64
CharSize5(radius) == FloorSqrtRatio(3775 * 3775, 46 * 46 * 2331, radius)

\* the gap of the call before, left on the object, when there is one
CircleGapCarried(cs, n) ==
    IF gap > 0 THEN gap
    ELSE IF n >= 4 THEN cs \div 100 ELSE (cs * 2) \div 100

\* gap = int(char_size * gap_ratio); gap_ratio is 0.02 (2, 3 chars), 0.01 (4, 5)
CircleGap(cs, n) == IF n >= 4 THEN cs \div 100 ELSE (cs * 2) \div 100

\* row_offset = r * 0.20
RowOffset5Tight(radius) == (radius * 20 * Scale) \div 100

\* _draw_5char: row_offset = r * 0.26                     (in 1/Scale px)
RowOffset5(radius) == (radius * 26 * Scale) \div 100

Pos(k, px, py) == [ch |-> k, x |-> px, y |-> py]

\* every count up to 5 drawn the way _draw_3char_horizontal / _vertical do:
\* one row, or one column when the flag says vertical
CirclePositionsOneLine(n, variant, xcen, ycen, radius, cs, g) ==
    LET X == Scale * xcen
        Y == Scale * ycen
        off(k) == (2 * k - n - 1) * (Scale \div 2) * (cs + g)
    IN  [k \in 1..(IF n <= 5 THEN n ELSE 0) |->
            IF variant = "vertical" THEN Pos(k, X, Y + off(k))
            ELSE Pos(k, X + off(k), Y)]

\* the `positions` lists of _draw_1char .. _draw_5char      (in 1/Scale px)
CirclePositions(n, variant, xcen, ycen, radius, cs, g) ==
    LET X == Scale * xcen
        Y == Scale * ycen
        step == Scale * (cs + g)
        half_step == (Scale \div 2) * (cs + g)
    IN  CASE n = 1 -> <<Pos(1, X, Y)>>
          [] n = 2 -> <<Pos(1, X - half_step, Y), Pos(2, X + half_step, Y)>>
          [] n = 3 /\ variant = "vertical" ->
                <<Pos(1, X, Y - step), Pos(2, X, Y), Pos(3, X, Y + step)>>
          [] n = 3 /\ variant # "vertical" ->
                <<Pos(1, X - step, Y), Pos(2, X, Y), Pos(3, X + step, Y)>>
          [] n = 4 ->
                <<Pos(1, X - half_step, Y - half_step),
                  Pos(2, X + half_step, Y - half_step),
                  Pos(3, X - half_step, Y + half_step),
                  Pos(4, X + half_step, Y + half_step)>>
          [] n = 5 ->
                <<Pos(1, X - half_step, Y - RowOffset5(radius)),
                  Pos(2, X + half_step, Y - RowOffset5(radius)),
                  Pos(3, X - step, Y + RowOffset5(radius)),
                  Pos(4, X, Y + RowOffset5(radius)),
                  Pos(5, X + step, Y + RowOffset5(radius))>>
          [] OTHER -> <<>>

CircleCharSize(n, radius) ==
    CASE n = 1 -> CharSize1(radius)
      [] n = 2 -> CharSize2(radius)
      [] n = 3 -> CharSize3(radius)
      [] n = 4 -> CharSize4(radius)
      [] n = 5 -> CharSize5(radius)
      [] OTHER -> 0

\* -------------------------------------------------- StampIconGenerator
\* safe_radius = int(self.size * self.safe_area_ratio / 2), ratio 0.72
SafeRadius(sz) == (sz * 36) \div 100

\* draw_borders: outer_radius = int(size * 0.90 / 2) and the outer_bbox
IconOuterBox(sz, center) ==
    LET outer_radius == (sz * 45) \div 100
    IN  <<center - outer_radius, center - outer_radius,
          center + outer_radius, center + outer_radius>>

\* calculate_font_size(text, num_rows) for len(text) = n >= 1:
\* int(min(safe_diameter / chars_per_row * 0.85, safe_diameter / num_rows * 0.85))
CalculateFontSize(sz, n, num_rows) ==
    LET safe_diameter == SafeRadius(sz) * 2
        chars_per_row == CeilDiv(n, num_rows)
    IN  (safe_diameter * 85) \div (100 * Max(chars_per_row, num_rows))

\* the font_size arrange_text_in_circle returns: two rows for 3, 4, 5
\* characters, one row otherwise
IconFontSize(sz, n) ==
    IF n \in 3..5 THEN CalculateFontSize(sz, n, 2) ELSE CalculateFontSize(sz, n, 1)

\* the positions arrange_text_in_circle returns            (in 1/Scale px)
IconPositions(n, center, fs) ==
    LET C == Scale * center
    IN  CASE n = 4 ->
                <<Pos(1, C - fs * 55, C - fs * 55), Pos(2, C + fs * 55, C - fs * 55),
                  Pos(3, C - fs * 55, C + fs * 55), Pos(4, C + fs * 55, C + fs * 55)>>
          [] n = 5 ->
                <<Pos(1, C - fs * 55, C - fs * 55), Pos(2, C + fs * 55, C - fs * 55),
                  Pos(3, C - fs * 75, C + fs * 55), Pos(4, C, C + fs * 55),
                  Pos(5, C + fs * 75, C + fs * 55)>>
          [] n = 3 ->
                <<Pos(1, C, C - fs * 50),
                  Pos(2, C - fs * 60, C + fs * 50), Pos(3, C + fs * 60, C + fs * 50)>>
          [] n = 2 -> <<Pos(1, C - fs * 55, C), Pos(2, C + fs * 55, C)>>
          [] OTHER -> <<Pos(1, C, C)>>

\* draw_text: draw_x = x - char_width / 2, draw_y = y - char_height / 2
IconDrawOrigin(p, bb) ==
    <<p.x - (Scale \div 2) * (bb[3] - bb[1]),
      p.y - (Scale \div 2) * (bb[4] - bb[2])>>

\* outcomes of the random draws of add_stamp_texture
Noises == {"noise_a", "noise_b"}

\* ------------------------------------------------------- state machine
NoBBox == <<0, 0, 0, 0>>
NoResult == [op |-> "none"]

\* a create_stamp or generate call has returned
Returned == op \in {"create_stamp", "generate"} /\ err = "none"

\* what a caller sees of a finished call: its inputs, the ink bounds the font
\* gave, and the layout (not the pixels, so not the texture)
Result ==
    [op |-> op, shape |-> shape, size |-> size,
     char_count |-> char_count, layout_3char |-> layout_3char,
     bbox |-> bbox, layout |-> layout, char_size |-> char_size, gap |-> gap,
     font_size |-> font_size, positions |-> positions]

\* the locals of a call that has not drawn anything
Blank ==
    /\ inner_radius' = 0
    /\ inner_size' = 0
    /\ layout' = <<>>
    /\ char_size' = 0
    /\ gap' = 0
    /\ font_size' = 0
    /\ positions' = <<>>
    /\ draws' = <<>>
    /\ texture' = "none"
    /\ outline' = NoBBox

\* no call has been made on the new object
Fresh ==
    /\ op' = "init"
    /\ err' = "none"
    /\ char_count' = 0
    /\ layout_3char' = "horizontal"
    /\ bbox' = NoBBox
    /\ Blank
    /\ UNCHANGED <<kept, inflight, vm, pipe>>

\* CircleStampGenerator.__init__(size)
NewCircle(sz) ==
    /\ shape' = "circle"
    /\ size' = sz
    /\ cx' = sz \div 2
    /\ cy' = sz \div 2
    /\ Fresh

\* SquareStampGenerator.__init__(size)
NewSquare(sz) ==
    /\ shape' = "square"
    /\ size' = sz
    /\ cx' = sz \div 2
    /\ cy' = sz \div 2
    /\ Fresh

\* StampIconGenerator.__init__(size)
NewIcon(sz) ==
    /\ shape' = "icon"
    /\ size' = sz
    /\ cx' = sz \div 2
    /\ cy' = sz \div 2
    /\ Fresh

\* StampIconGenerator.generate(text, output_path, add_texture, show_guides).
\* For an empty text calculate_font_size divides by chars_per_row = 0.
IconGenerate(n, add_texture, noise, bb) ==
    /\ shape = "icon"
    /\ op' = "generate"
    /\ char_count' = n
    /\ IF n = 0
       THEN /\ err' = "ZeroDivisionError"
            /\ font_size' = 0
            /\ positions' = <<>>
            /\ draws' = <<>>
            /\ bbox' = NoBBox
            /\ texture' = "none"
            /\ outline' = NoBBox
       ELSE /\ err' = "none"
            /\ font_size' = IconFontSize(size, n)
            /\ positions' = IconPositions(n, cx, font_size')
            /\ draws' = [k \in 1..Min(n, Len(positions')) |->
                            IconDrawOrigin(positions'[k], bb)]
            /\ bbox' = bb
            /\ texture' = IF add_texture THEN noise ELSE "none"
            /\ outline' = IconOuterBox(size, cx)
    /\ inner_radius' = 0
    /\ inner_size' = 0
    /\ layout' = <<>>
    /\ char_size' = 0
    /\ gap' = 0
    /\ UNCHANGED <<shape, size, cx, cy, layout_3char, kept, inflight, vm, pipe>>

\* CircleStampGenerator.create_stamp(text, font_name, layout_3char)
CircleCreateStamp(n, variant, bb) ==
    /\ shape = "circle"
    /\ inner_radius' = InnerRadius(size)
    /\ char_size' = CircleCharSize(n, inner_radius')
    /\ gap' = IF n \in 2..5 THEN CircleGap(char_size', n) ELSE 0
    /\ font_size' = CircleFontSize(char_size')
    /\ positions' = CirclePositions(n, variant, cx, cy, inner_radius', char_size', gap')
    /\ draws' = [k \in 1..Len(positions') |-> DrawOrigin(positions'[k], bb)]
    /\ inner_size' = 0
    /\ layout' = <<>>
    /\ op' = "create_stamp"
    /\ err' = "none"
    /\ char_count' = n
    /\ layout_3char' = variant
    /\ bbox' = bb
    /\ texture' = "none"
    /\ outline' = CircleOutline(size, cx, cy)
    /\ UNCHANGED <<shape, size, cx, cy, kept, inflight, vm, pipe>>

\* SquareStampGenerator.create_stamp(text, font_name)
SquareCreateStamp(n, bb) ==
    /\ shape = "square"
    /\ inner_size' = InnerSize(size)
    /\ IF n < 1
       THEN /\ layout' = <<>>
            /\ char_size' = 0
            /\ gap' = 0
            /\ font_size' = 0
            /\ positions' = <<>>
       ELSE /\ layout' = GetLayoutValue(n)
            /\ char_size' = SquareCharSize(inner_size', layout')
            /\ gap' = SquareGap(char_size')
            /\ font_size' = SquareFontSize(char_size')
            /\ positions' = DrawChars(n, layout', cx, cy, char_size', gap')
    /\ draws' = [k \in 1..Len(positions') |-> DrawOrigin(positions'[k], bb)]
    /\ inner_radius' = 0
    /\ op' = "create_stamp"
    /\ err' = "none"
    /\ char_count' = n
    /\ bbox' = bb
    /\ texture' = "none"
    /\ outline' = SquareOutline(size)
    /\ UNCHANGED <<shape, size, cx, cy, layout_3char, kept, inflight, vm, pipe>>

\* SquareStampGenerator.get_layout(char_count), called on its own as main() does
SquareGetLayout(n) ==
    /\ shape = "square"
    /\ op' = "get_layout"
    /\ char_count' = n
    /\ err' = IF GetLayoutRaises(n) THEN "ZeroDivisionError" ELSE "none"
    /\ layout' = IF GetLayoutRaises(n) THEN <<>> ELSE GetLayoutValue(n)
    /\ inner_radius' = 0
    /\ inner_size' = 0
    /\ char_size' = 0
    /\ gap' = 0
    /\ font_size' = 0
    /\ positions' = <<>>
    /\ draws' = <<>>
    /\ bbox' = NoBBox
    /\ texture' = "none"
    /\ outline' = NoBBox
    /\ UNCHANGED <<shape, size, cx, cy, layout_3char, kept, inflight, vm, pipe>>

\* SquareStampGenerator._draw_chars(draw, chars, layout, inner_margin,
\* inner_size, font_name) called with a row plan of the caller's choosing and
\* the inner_size create_stamp computes.  max(layout) raises ValueError for an
\* empty plan; otherwise the double loop draws and the method returns.
SquareDrawChars(n, lay, bb) ==
    /\ shape = "square"
    /\ op' = "_draw_chars"
    /\ char_count' = n
    /\ layout' = lay
    /\ inner_size' = InnerSize(size)
    /\ IF lay = <<>>
       THEN /\ err' = "ValueError"
            /\ char_size' = 0
            /\ gap' = 0
            /\ font_size' = 0
            /\ positions' = <<>>
       ELSE /\ err' = "none"
            /\ char_size' = SquareCharSize(inner_size', lay)
            /\ gap' = SquareGap(char_size')
            /\ font_size' = SquareFontSize(char_size')
            /\ positions' = DrawChars(n, lay, cx, cy, char_size', gap')
    /\ draws' = [k \in 1..Len(positions') |-> DrawOrigin(positions'[k], bb)]
    /\ inner_radius' = 0
    /\ bbox' = bb
    /\ texture' = "none"
    /\ outline' = NoBBox
    /\ UNCHANGED <<shape, size, cx, cy, layout_3char, kept, inflight, vm, pipe>>

\* ---- create_stamp run by concurrent callers on the one generator object.
\* Each caller has its own locals (img, draw, inner_radius / inner_size,
\* chars, layout, char_size, gap, positions); the object's fields are shared.
\* A call is cut where it reads the object's fields: self.size on entry,
\* self.cx and self.cy when the positions are built.
Callers == {"t1", "t2"}

Idle ==
    [pc |-> "idle", char_count |-> 0, layout_3char |-> DefaultLayout3Char,
     extent |-> 0, layout |-> <<>>, char_size |-> 0, gap |-> 0,
     positions |-> <<>>]

Quiet == \A c \in Callers : inflight[c].pc = "idle"

OnlyCaller(c, rec) ==
    /\ inflight' = [inflight EXCEPT ![c] = rec]
    /\ UNCHANGED <<shape, size, cx, cy, op, err, char_count, layout_3char, bbox,
                   inner_radius, inner_size, layout, char_size, gap, font_size,
                   positions, draws, texture, outline, kept, vm, pipe>>

\* create_stamp up to char_count = len(chars): the border is drawn and
\* inner_radius (circle) or inner_size (square) computed from self.size.
\* The square's create_stamp has no layout_3char parameter.
Enter(c, n, variant) ==
    /\ shape \in {"circle", "square"}
    /\ inflight[c].pc = "idle"
    /\ shape = "square" => variant = DefaultLayout3Char
    /\ OnlyCaller(c, [Idle EXCEPT
            !.pc = "entered", !.char_count = n, !.layout_3char = variant,
            !.extent = IF shape = "circle" THEN InnerRadius(size)
                       ELSE InnerSize(size)])

\* the dispatch and the head of _draw_<n>char / _draw_chars: char_size and
\* gap from the caller's own locals.  The square returns at char_count < 1.
Solve(c) ==
    LET me == inflight[c]
        n == me.char_count
    IN  /\ me.pc = "entered"
        /\ IF shape = "circle"
           THEN LET cs == CircleCharSize(n, me.extent)
                IN  OnlyCaller(c, [me EXCEPT
                        !.pc = "solved", !.char_size = cs,
                        !.gap = IF n \in 2..5 THEN CircleGap(cs, n) ELSE 0])
           ELSE IF n < 1
           THEN OnlyCaller(c, [me EXCEPT !.pc = "done"])
           ELSE LET lay == GetLayoutValue(n)
                    cs == SquareCharSize(me.extent, lay)
                IN  OnlyCaller(c, [me EXCEPT
                        !.pc = "solved", !.layout = lay, !.char_size = cs,
                        !.gap = SquareGap(cs)])

\* the positions, built from self.cx and self.cy, and the return
Place(c) ==
    LET me == inflight[c]
    IN  /\ me.pc = "solved"
        /\ OnlyCaller(c, [me EXCEPT
                !.pc = "done",
                !.positions =
                    IF shape = "circle"
                    THEN CirclePositions(me.char_count, me.layout_3char, cx, cy,
                                         me.extent, me.char_size, me.gap)
                    ELSE DrawChars(me.char_count, me.layout, cx, cy,
                                   me.char_size, me.gap)])

\* the caller drops the image it was returned
Leave(c) ==
    /\ inflight[c].pc = "done"
    /\ OnlyCaller(c, Idle)

\* ------------------------------------------------------- VersionManager
\* src/app/jobs/version_manager.py.  One VersionManager object: self.orders,
\* and per order the fields of OrderFileSet that its methods read or write.
\* versions is kept as the set of stages that hold at least one version,
\* which is all get_latest_version(order_id, stage) is asked for.
FileStages ==
    {"01_original", "02_analyzed", "03_processed", "04_illustrator",
     "05_review", "06_approved", "07_final_bmp", "08_printed"}

\* order ids: _generate_order_id gives "MS" + the time to the second
OrderIds == {"MS1"}
MaxReviews == 3
MaxClock == 3

\* an order id with no entry in self.orders and no metadata on disk
NoOrder ==
    [exists |-> FALSE, versions |-> {}, layer_reviews |-> <<>>,
     current_stage |-> "01_original", final_approved |-> FALSE]

\* OrderFileSet(order_id, customer_name, created_at, updated_at)
OrderFileSet ==
    [exists |-> TRUE, versions |-> {}, layer_reviews |-> <<>>,
     current_stage |-> "01_original", final_approved |-> FALSE]

\* VersionManager.__init__: self.orders = {}.  now is the last datetime.now()
\* a review was stamped with; call and ret are the last method called and
\* whether it returned a truthy value.
NewVersionManager ==
    [orders |-> [o \in OrderIds |-> NoOrder], now |-> 0,
     call |-> "init", ret |-> TRUE]

\* create_order: a new OrderFileSet replaces whatever self.orders held
VmCreateOrder(v, o) ==
    [v EXCEPT !.orders[o] = OrderFileSet, !.call = "create_order", !.ret = TRUE]

\* add_file: None when the order or the source file is missing; otherwise the
\* version is appended and current_stage becomes its stage
VmAddFile(v, o, stage, found) ==
    IF ~v.orders[o].exists \/ ~found
    THEN [v EXCEPT !.call = "add_file", !.ret = FALSE]
    ELSE [v EXCEPT !.orders[o].versions = @ \cup {stage},
                   !.orders[o].current_stage = stage,
                   !.call = "add_file", !.ret = TRUE]

\* get_latest_version(order_id, stage) is not None
VmHasVersion(v, o, stage) ==
    v.orders[o].exists /\ stage \in v.orders[o].versions

\* add_layer_review: None when the order is missing; otherwise the review is
\* appended with reviewed_at = datetime.now().  final_approved and
\* current_stage are not touched.
VmAddLayerReview(v, o, approved, at) ==
    IF ~v.orders[o].exists
    THEN [v EXCEPT !.call = "add_layer_review", !.ret = FALSE]
    ELSE [v EXCEPT !.orders[o].layer_reviews =
                        Append(@, [reviewed_at |-> at, approved |-> approved]),
                   !.now = at,
                   !.call = "add_layer_review", !.ret = TRUE]

\* max(order.layer_reviews, key=lambda r: r.reviewed_at): the first review
\* in list order among those with the greatest reviewed_at
LatestReview(reviews) ==
    reviews[CHOOSE i \in 1..Len(reviews) :
                /\ \A j \in 1..Len(reviews) :
                        reviews[j].reviewed_at <= reviews[i].reviewed_at
                /\ \A j \in 1..(i - 1) :
                        reviews[j].reviewed_at < reviews[i].reviewed_at]

\* approve_final returns True
ApproveFinalGrants(ord) ==
    /\ ord.exists
    /\ ord.layer_reviews # <<>> => LatestReview(ord.layer_reviews).approved

\* approve_final: False, and nothing written, when the order is missing or
\* its latest review is not approved
VmApproveFinal(v, o) ==
    IF ApproveFinalGrants(v.orders[o])
    THEN [v EXCEPT !.orders[o].final_approved = TRUE,
                   !.orders[o].current_stage = "06_approved",
                   !.call = "approve_final", !.ret = TRUE]
    ELSE [v EXCEPT !.call = "approve_final", !.ret = FALSE]

\* ------------------------------------------------------ MadstampPipeline
\* src/app/main.py, _process_email and _execute_production_workflow on one
\* PipelineResult.  The pipeline's collaborators are whatever objects its
\* attributes hold: a call on one either returns or raises.
PipelineStatus ==
    {"idle", "checking_emails", "classifying_files", "analyzing_image",
     "sending_analysis", "generating_image", "processing_image",
     "illustrator_work", "layer_review", "customer_confirm", "converting_bmp",
     "syncing_drive", "ready_to_print", "printing", "completed", "failed"}

\* ProducibilityStatus (src/app/apis/openrouter_client.py)
Verdicts == {"producible", "needs_clarification", "not_producible"}

\* the class of the email object: CustomerEmail as EmailHandler builds it
\* (no attribute sender), or an object that has the attributes main.py reads
EmailKinds == {"CustomerEmail", "stand_in"}

\* the class of self.illustrator: IllustratorAutomator has no method
\* create_stamp_document
IllustratorKinds == {"IllustratorAutomator", "stand_in"}

\* a collaborator's call: a usable result, a result that reports failure
\* (falsy path, success = False), or an exception
Outcomes == {"returns", "returns_nothing", "raises"}

\* attachments of the email whose suffix is an image extension
MaxImages == 2

\* no _process_email call is in progress
IdlePipeline ==
    [pc |-> "idle", status |-> "idle", completed_at |-> FALSE,
     error_message |-> FALSE, trail |-> <<>>, mail |-> "stand_in",
     images |-> 0, verdict |-> "producible",
     illustrator |-> "IllustratorAutomator", raised |-> FALSE,
     order_id |-> "MS1"]

\* result.status = s; trail is the sequence of values status has held
Assign(p, s) == [p EXCEPT !.status = s, !.trail = Append(@, s)]

\* an except clause that returns the result as it stands
OnExceptionKeepStatus(p) ==
    [p EXCEPT !.error_message = TRUE, !.completed_at = TRUE,
              !.pc = "returned"]

\* except Exception, in _process_email and _execute_production_workflow alike:
\* status FAILED, error_message and completed_at set, the result returned
OnException(p) ==
    [Assign(p, "failed") EXCEPT !.error_message = TRUE, !.completed_at = TRUE,
                                !.pc = "returned"]

\* a collaborator raised
Raises(p) == OnException([p EXCEPT !.raised = TRUE])

\* the statement after the call that returned: the next status and step
Advance(p, s, step) == [Assign(p, s) EXCEPT !.pc = step]

\* analysis.producibility_status == ProducibilityStatus.PRODUCIBLE
EntersWorkflowUnlessRejected(verdict) == verdict # "not_producible"

EntersWorkflow(verdict) == verdict = "producible"

\* the stamp generators' state, which neither the VersionManager nor the
\* pipeline touches
StampVars ==
    <<shape, size, cx, cy, op, err, char_count, layout_3char, bbox,
      inner_radius, inner_size, layout, char_size, gap, font_size,
      positions, draws, texture, outline, kept, inflight>>

\* VersionManager.create_order(order_id, customer_name)
CreateOrder(o) ==
    /\ pipe.pc = "idle"
    /\ vm' = VmCreateOrder(vm, o)
    /\ UNCHANGED <<StampVars, pipe>>

\* VersionManager.add_file(order_id, source_path, file_type, stage);
\* found: os.path.exists(source_path)
AddFile(o, stage, found) ==
    /\ pipe.pc = "idle"
    /\ vm' = VmAddFile(vm, o, stage, found)
    /\ UNCHANGED <<StampVars, pipe>>

\* VersionManager.add_layer_review(order_id, ..., approved); the clock has
\* moved on, or not, since the last review was stamped
AddLayerReview(o, approved, at) ==
    /\ pipe.pc = "idle"
    /\ at \in {vm.now, vm.now + 1}
    /\ at <= MaxClock
    /\ Len(vm.orders[o].layer_reviews) < MaxReviews
    /\ vm' = VmAddLayerReview(vm, o, approved, at)
    /\ UNCHANGED <<StampVars, pipe>>

\* VersionManager.approve_final(order_id)
ApproveFinal(o) ==
    /\ pipe.pc = "idle"
    /\ vm' = VmApproveFinal(vm, o)
    /\ UNCHANGED <<StampVars, pipe>>

\* _process_email(email) up to the try: a new PipelineResult with status
\* CHECKING_EMAILS.  images: the email's attachments with an image suffix;
\* verdict: what the analyzer answers for its first image.
ProcessEmail(mail, images, verdict, illustrator, o) ==
    /\ pipe.pc \in {"idle", "returned"}
    /\ pipe' = [Assign([IdlePipeline EXCEPT
                            !.mail = mail, !.images = images,
                            !.verdict = verdict, !.illustrator = illustrator,
                            !.order_id = o],
                       "checking_emails")
                EXCEPT !.pc = "create_order"]
    /\ UNCHANGED <<StampVars, vm>>

\* email.sender.split("@") and version_manager.create_order: a CustomerEmail
\* has no attribute sender, so the first statement raises AttributeError
StepCreateOrder ==
    /\ pipe.pc = "create_order"
    /\ IF pipe.mail = "CustomerEmail"
       THEN /\ pipe' = OnException(pipe)
            /\ UNCHANGED vm
       ELSE /\ pipe' = Advance(pipe, "classifying_files", "classify")
            /\ vm' = VmCreateOrder(vm, pipe.order_id)
    /\ UNCHANGED StampVars

\* _classify_and_save_files and the check of its result.  saved: the
\* attachments file_manager.save_file gave a path for before the step ended.
\* An empty image_paths returns FAILED without setting completed_at.
StepClassify(saved, out) ==
    /\ pipe.pc = "classify"
    /\ saved \in 0..pipe.images
    /\ out \in {"returns", "raises"}
    /\ vm' = IF saved > 0
             THEN VmAddFile(vm, pipe.order_id, "01_original", TRUE)
             ELSE vm
    /\ pipe' = IF out = "raises" THEN Raises(pipe)
               ELSE IF saved = 0
               THEN [Assign(pipe, "failed") EXCEPT
                        !.error_message = TRUE, !.pc = "returned"]
               ELSE Advance(pipe, "analyzing_image", "analyze")
    /\ UNCHANGED StampVars

\* _analyze_images: image_analyzer.analyze, then add_file(stage ANALYZED)
StepAnalyze(out) ==
    /\ pipe.pc = "analyze"
    /\ out \in {"returns", "raises"}
    /\ IF out = "raises"
       THEN /\ pipe' = Raises(pipe)
            /\ UNCHANGED vm
       ELSE /\ pipe' = Advance(pipe, "sending_analysis", "send_analysis")
            /\ vm' = VmAddFile(vm, pipe.order_id, "02_analyzed", TRUE)
    /\ UNCHANGED StampVars

\* _send_analysis_result and the branch on the verdict: the production
\* workflow, or COMPLETED with completed_at set
StepSendAnalysis(out) ==
    /\ pipe.pc = "send_analysis"
    /\ out \in {"returns", "raises"}
    /\ pipe' = IF out = "raises" THEN Raises(pipe)
               ELSE IF EntersWorkflow(pipe.verdict)
               THEN Advance(pipe, "generating_image", "generate")
               ELSE [Assign(pipe, "completed") EXCEPT
                        !.completed_at = TRUE, !.pc = "returned"]
    /\ UNCHANGED <<StampVars, vm>>

\* _generate_image: add_file(stage PROCESSED) when gen_result.image_path
StepGenerate(out) ==
    /\ pipe.pc = "generate"
    /\ out \in Outcomes
    /\ pipe' = IF out = "raises" THEN Raises(pipe)
               ELSE Advance(pipe, "processing_image", "process")
    /\ vm' = IF out = "returns"
             THEN VmAddFile(vm, pipe.order_id, "03_processed", TRUE)
             ELSE vm
    /\ UNCHANGED StampVars

\* _process_image: add_file(stage PROCESSED) when proc_result.success
StepProcess(out) ==
    /\ pipe.pc = "process"
    /\ out \in Outcomes
    /\ pipe' = IF out = "raises" THEN Raises(pipe)
               ELSE Advance(pipe, "illustrator_work", "illustrator")
    /\ vm' = IF out = "returns"
             THEN VmAddFile(vm, pipe.order_id, "03_processed", TRUE)
             ELSE vm
    /\ UNCHANGED StampVars

\* _illustrator_work: self.illustrator.create_stamp_document, which an
\* IllustratorAutomator does not have; add_file(stage ILLUSTRATOR) when
\* ill_result.success
StepIllustrator(out) ==
    /\ pipe.pc = "illustrator"
    /\ out \in Outcomes
    /\ IF pipe.illustrator = "IllustratorAutomator"
       THEN /\ out = "raises"
            /\ pipe' = OnException(pipe)
            /\ UNCHANGED vm
       ELSE /\ pipe' = IF out = "raises" THEN Raises(pipe)
                       ELSE Advance(pipe, "layer_review", "review")
            /\ vm' = IF out = "returns"
                     THEN VmAddFile(vm, pipe.order_id, "04_illustrator", TRUE)
                     ELSE vm
    /\ UNCHANGED StampVars

\* _review_layers: an approved review of the latest ILLUSTRATOR version,
\* when there is one
StepReview(at) ==
    /\ pipe.pc = "review"
    /\ at \in {vm.now, vm.now + 1}
    /\ at <= MaxClock
    /\ pipe' = Advance(pipe, "customer_confirm", "confirm")
    /\ vm' = IF VmHasVersion(vm, pipe.order_id, "04_illustrator")
             THEN VmAddLayerReview(vm, pipe.order_id, TRUE, at)
             ELSE vm
    /\ UNCHANGED StampVars

\* _request_customer_confirm: a line in the processing log
StepConfirm ==
    /\ pipe.pc = "confirm"
    /\ pipe' = Advance(pipe, "converting_bmp", "convert")
    /\ UNCHANGED <<StampVars, vm>>

\* _convert_to_bmp: add_file(stage FINAL_BMP) when bmp_result.success
StepConvert(out) ==
    /\ pipe.pc = "convert"
    /\ out \in Outcomes
    /\ pipe' = IF out = "raises" THEN Raises(pipe)
               ELSE Advance(pipe, "syncing_drive", "sync")
    /\ vm' = IF out = "returns"
             THEN VmAddFile(vm, pipe.order_id, "07_final_bmp", TRUE)
             ELSE vm
    /\ UNCHANGED StampVars

\* _sync_final_to_drive: version_manager.sync_to_google_drive and the link
StepSync(out) ==
    /\ pipe.pc = "sync"
    /\ out \in Outcomes
    /\ pipe' = IF out = "raises" THEN Raises(pipe)
               ELSE Advance(pipe, "ready_to_print", "send_completion")
    /\ UNCHANGED <<StampVars, vm>>

\* _send_completion_email, then status COMPLETED and completed_at
StepSendCompletion(out) ==
    /\ pipe.pc = "send_completion"
    /\ out \in {"returns", "raises"}
    /\ pipe' = IF out = "raises" THEN Raises(pipe)
               ELSE [Assign(pipe, "completed") EXCEPT
                        !.completed_at = TRUE, !.pc = "report"]
    /\ UNCHANGED <<StampVars, vm>>

\* generate_version_report and the write of VERSION_REPORT.md, still inside
\* the try: an exception here turns the COMPLETED result into FAILED
StepReport(out) ==
    /\ pipe.pc = "report"
    /\ out \in {"returns", "raises"}
    /\ pipe' = IF out = "raises" THEN Raises(pipe)
               ELSE [pipe EXCEPT !.pc = "returned"]
    /\ UNCHANGED <<StampVars, vm>>

\* generator = CircleStampGenerator(size=1024), as main() builds it
Init ==
    /\ shape = "circle"
    /\ size = DefaultSize
    /\ cx = size \div 2
    /\ cy = size \div 2
    /\ op = "init"
    /\ err = "none"
    /\ char_count = 0
    /\ layout_3char = "horizontal"
    /\ bbox = NoBBox
    /\ inner_radius = 0
    /\ inner_size = 0
    /\ layout = <<>>
    /\ char_size = 0
    /\ gap = 0
    /\ font_size = 0
    /\ positions = <<>>
    /\ draws = <<>>
    /\ texture = "none"
    /\ outline = NoBBox
    /\ kept = NoResult
    /\ inflight = [c \in Callers |-> Idle]
    /\ vm = NewVersionManager
    /\ pipe = IdlePipeline

Next ==
    \/ \E sz \in Sizes : NewCircle(sz)
    \/ \E sz \in Sizes : NewSquare(sz)
    \/ \E n \in CharCounts, variant \in Variants, bb \in InkBounds :
            CircleCreateStamp(n, variant, bb)
    \/ \E n \in CharCounts, bb \in InkBounds : SquareCreateStamp(n, bb)
    \/ \E n \in CharCounts : SquareGetLayout(n)

Spec == Init /\ [][Next]_vars

\* the same calls, and the placement step called with a plan of its own
PlanMaxChars == 6
PlanCounts == 0..PlanMaxChars
Plans == {<<>>, <<1>>, <<2, 2>>, <<2, 3>>, <<3, 3>>}

NextPlan ==
    \/ \E sz \in Sizes : NewCircle(sz)
    \/ \E sz \in Sizes : NewSquare(sz)
    \/ \E n \in PlanCounts, variant \in Variants, bb \in InkBounds :
            CircleCreateStamp(n, variant, bb)
    \/ \E n \in PlanCounts, bb \in InkBounds : SquareCreateStamp(n, bb)
    \/ \E n \in PlanCounts : SquareGetLayout(n)
    \/ \E n \in PlanCounts, lay \in Plans, bb \in InkBounds :
            SquareDrawChars(n, lay, bb)

SpecPlan == Init /\ [][NextPlan]_vars

\* the same calls on canvases of a few pixels, size 0 included
TinyMaxSize == 12
TinySizes == 0..TinyMaxSize

NextTiny ==
    \/ \E sz \in TinySizes : NewCircle(sz)
    \/ \E sz \in TinySizes : NewSquare(sz)
    \/ \E n \in CharCounts, variant \in Variants, bb \in InkBounds :
            CircleCreateStamp(n, variant, bb)
    \/ \E n \in CharCounts, bb \in InkBounds : SquareCreateStamp(n, bb)
    \/ \E n \in CharCounts : SquareGetLayout(n)

SpecTiny == Init /\ [][NextTiny]_vars

\* The caller keeps the result of the call just made, to compare a later call
\* with it (main() of both generators renders in a loop on one object).
KeepResult ==
    /\ Returned
    /\ kept # Result
    /\ kept' = Result
    /\ UNCHANGED <<shape, size, cx, cy, op, err, char_count, layout_3char, bbox,
                   inner_radius, inner_size, layout, char_size, gap, font_size,
                   positions, draws, texture, outline, inflight, vm, pipe>>

\* the same calls over fewer inputs, with results kept for comparison
DetMaxChars == 5
DetSizes == {MinSize, DefaultSize}
DetCounts == 0..DetMaxChars

NextDet ==
    \/ \E sz \in DetSizes : NewCircle(sz)
    \/ \E sz \in DetSizes : NewSquare(sz)
    \/ \E n \in DetCounts, variant \in Variants, bb \in InkBounds :
            CircleCreateStamp(n, variant, bb)
    \/ \E n \in DetCounts, bb \in InkBounds : SquareCreateStamp(n, bb)
    \/ \E n \in DetCounts : SquareGetLayout(n)
    \/ \E sz \in DetSizes : NewIcon(sz)
    \/ \E n \in DetCounts, add_texture \in BOOLEAN, noise \in Noises, bb \in InkBounds :
            IconGenerate(n, add_texture, noise, bb)
    \/ KeepResult

SpecDet == Init /\ [][NextDet]_vars

\* One generator object shared by the concurrent callers and by a caller
\* that runs its calls one at a time.  No method but __init__ assigns a
\* field, so the object is replaced only while no call is in flight on it.
ParMaxChars == 5
ParCounts == 0..ParMaxChars

NextPar ==
    \/ \E sz \in DetSizes : Quiet /\ NewCircle(sz)
    \/ \E sz \in DetSizes : Quiet /\ NewSquare(sz)
    \/ \E n \in ParCounts, variant \in Variants : CircleCreateStamp(n, variant, NoBBox)
    \/ \E n \in ParCounts : SquareCreateStamp(n, NoBBox)
    \/ \E c \in Callers, n \in ParCounts, variant \in Variants : Enter(c, n, variant)
    \/ \E c \in Callers : Solve(c)
    \/ \E c \in Callers : Place(c)
    \/ \E c \in Callers : Leave(c)

SpecPar == Init /\ [][NextPar]_vars

\* calls on one VersionManager, made by its owner
VmStages == {"01_original", "04_illustrator", "07_final_bmp"}

NextVm ==
    \/ \E o \in OrderIds : CreateOrder(o)
    \/ \E o \in OrderIds, stage \in VmStages, found \in BOOLEAN :
            AddFile(o, stage, found)
    \/ \E o \in OrderIds, approved \in BOOLEAN, at \in 0..MaxClock :
            AddLayerReview(o, approved, at)
    \/ \E o \in OrderIds : ApproveFinal(o)

SpecVm == Init /\ [][NextVm]_vars

\* run_once: the emails are processed one after another
NextPipe ==
    \/ \E mail \in EmailKinds, images \in 0..MaxImages, verdict \in Verdicts,
          illustrator \in IllustratorKinds, o \in OrderIds :
            ProcessEmail(mail, images, verdict, illustrator, o)
    \/ StepCreateOrder
    \/ \E saved \in 0..MaxImages, out \in Outcomes : StepClassify(saved, out)
    \/ \E out \in Outcomes : StepAnalyze(out)
    \/ \E out \in Outcomes : StepSendAnalysis(out)
    \/ \E out \in Outcomes : StepGenerate(out)
    \/ \E out \in Outcomes : StepProcess(out)
    \/ \E out \in Outcomes : StepIllustrator(out)
    \/ \E at \in 0..MaxClock : StepReview(at)
    \/ StepConfirm
    \/ \E out \in Outcomes : StepConvert(out)
    \/ \E out \in Outcomes : StepSync(out)
    \/ \E out \in Outcomes : StepSendCompletion(out)
    \/ \E out \in Outcomes : StepReport(out)

SpecPipe == Init /\ [][NextPipe]_vars

\* ------------------------------------------------------ observations
Half == Scale \div 2

\* a create_stamp call has returned
Rendered == op = "create_stamp" /\ err = "none"

Placed == DOMAIN positions

\* the rows of the rendered layout: the characters sharing a centre y
RowYs == {positions[k].y : k \in Placed}
RowOf(y) == {k \in Placed : positions[k].y = y}

\* the row plan: get_layout's for a square, for a circle the sizes of the
\* rows of `positions` from top to bottom
RowPlan ==
    IF shape = "square" THEN layout
    ELSE [i \in 1..Cardinality(RowYs) |->
            LET y == CHOOSE z \in RowYs : Cardinality({w \in RowYs : w < z}) = i - 1
            IN  Cardinality(RowOf(y))]

\* offsets of a target centre from (cx, cy)
DX(k) == positions[k].x - Scale * cx
DY(k) == positions[k].y - Scale * cy

\* the farthest corner of k's cell box is within inner_radius of the centre
InSafeCircle(k) ==
    LET a == Abs(DX(k)) + Half * char_size
        b == Abs(DY(k)) + Half * char_size
        R == Scale * inner_radius
    IN  a <= R /\ b <= R /\ a * a <= R * R - b * b

\* k's cell box is within the square of side inner_size about the centre
InSafeSquare(k) ==
    /\ Abs(DX(k)) + Half * char_size <= Half * inner_size
    /\ Abs(DY(k)) + Half * char_size <= Half * inner_size

\* the cell boxes of j and k share no interior point
BoxesApart(j, k) ==
    \/ Abs(positions[j].x - positions[k].x) >= Scale * char_size
    \/ Abs(positions[j].y - positions[k].y) >= Scale * char_size

\* the centres of j and k are at least char_size + gap apart
CentresApart(j, k) ==
    LET dx == Abs(positions[j].x - positions[k].x)
        dy == Abs(positions[j].y - positions[k].y)
        d == Scale * (char_size + gap)
    IN  dx >= d \/ dy >= d \/ dx * dx >= d * d - dy * dy

\* ------------------------------------------------------------ claims

C2_Containment ==
    Rendered =>
        \A k \in Placed :
            IF shape = "circle" THEN InSafeCircle(k) ELSE InSafeSquare(k)

\* C3: no two characters' cell boxes overlap, in the same row or across rows.
C3_NoCellOverlap ==
    Rendered => \A j, k \in Placed : j < k => BoxesApart(j, k)

\* C4: any two target centres of one render are at least char_size + gap
\* apart (circle with 2..5 characters, every square layout).
C4_CentreDistance ==
    Rendered => \A j, k \in Placed : j < k => CentresApart(j, k)

C4_Witness ==
    /\ Rendered /\ shape = "circle" /\ char_count = 5 /\ size = DefaultSize
    /\ char_size = 261 /\ gap = 2
    /\ positions[1].y < positions[3].y
    /\ positions[1].x > positions[3].x /\ positions[1].x < positions[4].x

\* C5: every row is symmetric about the vertical centre line: each centre at
\* offset +d from cx has a partner in its row at -d, and a row of odd length
\* has its middle character exactly on cx.
C5_RowSymmetry ==
    Rendered =>
        \A y \in RowYs :
            /\ \A k \in RowOf(y) : \E j \in RowOf(y) : DX(j) = -DX(k)
            /\ Cardinality(RowOf(y)) % 2 = 1 =>
                    Cardinality({k \in RowOf(y) : DX(k) = 0}) = 1

C5_Witness ==
    /\ Rendered /\ shape = "square" /\ char_count = 5 /\ layout = <<2, 3>>
    /\ char_size > 0
    /\ DX(1) < 0 /\ DX(2) = -DX(1)
    /\ DX(3) < 0 /\ DX(4) = 0 /\ DX(5) = -DX(3)

\* C6: the row centre ys are symmetric about the horizontal centre line: a
\* row at offset +d from cy is matched by a row at -d.
C6_StackCentred ==
    Rendered => \A k \in Placed : \E j \in Placed : DY(j) = -DY(k)

C6_Witness ==
    /\ Rendered /\ shape = "square" /\ char_count = 10 /\ layout = <<3, 4, 3>>
    /\ char_size > 0
    /\ DY(1) < 0 /\ DY(4) = 0 /\ DY(8) = -DY(1)

\* C7: for a square, the widest row and the stack of rows both fit the inner
\* square: max_cols * char_size + (max_cols - 1) * gap <= inner_size and
\* num_rows * char_size + (num_rows - 1) * gap <= inner_size.
C7_SquareFits ==
    (Rendered /\ shape = "square" /\ char_count >= 1) =>
        /\ MaxSeq(layout) * char_size + (MaxSeq(layout) - 1) * gap <= inner_size
        /\ Len(layout) * char_size + (Len(layout) - 1) * gap <= inner_size

C7_Witness ==
    /\ Rendered /\ shape = "square" /\ char_count = 5 /\ layout = <<2, 3>>
    /\ size = DefaultSize /\ inner_size = 854 /\ char_size = 280 /\ gap = 5

\* C8: for a circle, every row at vertical offset dy from the centre is no
\* wider than the chord there:
\* row_len * char_size + (row_len - 1) * gap <= 2 * sqrt(r^2 - dy^2).
C8_ChordFits ==
    (Rendered /\ shape = "circle") =>
        \A y \in RowYs :
            LET row_len == Cardinality(RowOf(y))
                w == Half * (row_len * char_size + (row_len - 1) * gap)
                dy == Abs(y - Scale * cy)
                R == Scale * inner_radius
            IN  w <= R /\ dy <= R /\ w * w <= R * R - dy * dy

C8_Witness ==
    /\ Rendered /\ shape = "circle" /\ char_count = 3
    /\ layout_3char = "horizontal" /\ size = DefaultSize
    /\ inner_radius = 445 /\ char_size = 269 /\ gap = 5
    /\ Cardinality(RowYs) = 1

C10_Table ==
    <<<<2, 2>>, <<2, 3>>, <<3, 3>>, <<3, 4>>, <<4, 4>>, <<3, 3, 3>>, <<3, 4, 3>>,
      <<3, 4, 4>>, <<4, 4, 4>>, <<4, 5, 4>>, <<4, 5, 5>>, <<5, 5, 5>>,
      <<4, 4, 4, 4>>, <<4, 4, 5, 4>>, <<4, 5, 5, 4>>, <<4, 5, 5, 5>>,
      <<5, 5, 5, 5>>>>

C10_SquareTable ==
    (/\ shape = "square" /\ err = "none"
     /\ op \in {"create_stamp", "get_layout"}
     /\ char_count \in 4..20) => layout = C10_Table[char_count - 3]

C10_Witness ==
    /\ shape = "square" /\ op = "create_stamp" /\ err = "none"
    /\ char_count = 17 /\ layout = <<4, 4, 5, 4>> /\ Len(positions) = 17

\* C11: for a circle boundary the rows, top to bottom, are [1] for 1
\* character, [2] for 2, [1,2] for 3 when the variant flag is left at its
\* default, [2,2] for 4 and [2,3] for 5.
C11_CirclePlan ==
    (/\ Returned /\ shape \in {"circle", "icon"}
     /\ char_count \in 1..5
     /\ layout_3char = DefaultLayout3Char) =>
        RowPlan = (CASE char_count = 1 -> <<1>>
                     [] char_count = 2 -> <<2>>
                     [] char_count = 3 -> <<1, 2>>
                     [] char_count = 4 -> <<2, 2>>
                     [] OTHER -> <<2, 3>>)

\* C12: for a count n >= 1 outside the square table (n < 4 or n > 20) the
\* plan has cols = ceil(sqrt(n)) characters in every row but the last, the
\* last row holds the remainder n - cols * (rows - 1), which is between 1
\* and cols, every entry is positive and the entries sum to n.
C12_Fallback ==
    (/\ shape = "square" /\ err = "none"
     /\ op \in {"create_stamp", "get_layout"}
     /\ char_count >= 1 /\ char_count \notin 4..20) =>
        LET n == char_count
            cols == CHOOSE c \in 1..n : (c - 1) * (c - 1) < n /\ n <= c * c
            rows == Len(layout)
        IN  /\ rows >= 1
            /\ \A i \in 1..(rows - 1) : layout[i] = cols
            /\ layout[rows] = n - cols * (rows - 1)
            /\ layout[rows] \in 1..cols
            /\ \A i \in 1..rows : layout[i] > 0
            /\ SumSeq(layout) = n

C12_Witness ==
    /\ shape = "square" /\ op = "create_stamp" /\ err = "none"
    /\ char_count = 21 /\ layout = <<5, 5, 5, 5, 1>> /\ Len(positions) = 21

\* C13: a render of an N-character text yields exactly N placements, one per
\* character, in input order: the k-th character takes the k-th slot of the
\* walk over the rows from top to bottom and left to right within a row, so
\* no character is dropped or placed twice.
C13_AllPlacedInOrder ==
    (Rendered /\ char_count >= 1) =>
        /\ Len(positions) = char_count
        /\ Len(draws) = char_count
        /\ \A k \in Placed : positions[k].ch = k
        /\ \A j, k \in Placed :
                j < k => \/ positions[j].y < positions[k].y
                         \/ /\ positions[j].y = positions[k].y
                            /\ positions[j].x < positions[k].x

\* C14: for a character count of 0 the layout resolver yields an empty row
\* plan without raising, and the render returns without failing, with the
\* border only and no character placements.
C14_EmptyText ==
    (char_count = 0 /\ op \in {"get_layout", "create_stamp"}) =>
        /\ err = "none"
        /\ layout = <<>>
        /\ positions = <<>>
        /\ draws = <<>>

\* C15: when the placement step is given a row plan whose entries do not sum
\* to the length of the text, it fails with a PlanMismatch error and places
\* no subset of the characters.
C15_PlanMismatch ==
    (op = "_draw_chars" /\ SumSeq(layout) # char_count) =>
        (err = "PlanMismatch" /\ positions = <<>>)

\* the safe extent of the boundary: inner_radius of a circle, inner_size of
\* a square
SafeExtent == IF shape = "circle" THEN InnerRadius(size) ELSE InnerSize(size)

\* C16: constructing or using a boundary with canvas size <= 0, or one whose
\* derived safe extent is not positive, fails with an InvalidBoundary error,
\* and no layout is computed for it.
C16_InvalidBoundary ==
    (size <= 0 \/ SafeExtent <= 0) =>
        (err = "InvalidBoundary" /\ positions = <<>>)

\* C17: for every canvas size and character count the cell-size solver
\* either returns a strictly positive cell size or fails with
\* LayoutInfeasible: placement never proceeds with a cell size or a derived
\* glyph size that is zero or negative.
C17_PositiveCell ==
    (op = "create_stamp" /\ char_count >= 1) =>
        \/ err = "LayoutInfeasible" /\ positions = <<>>
        \/ err = "none" /\ positions = <<>>
        \/ err = "none" /\ char_size > 0 /\ font_size > 0

\* C18: a render never returns a partially populated result silently: either
\* every character of the text is placed and the call returns, or an error
\* is raised and nothing is placed (circle texts longer than 5 characters
\* and plan/text length mismatches included).
C18_AllOrNothing ==
    op \in {"create_stamp", "_draw_chars"} =>
        \/ err = "none" /\ Len(positions) = char_count /\ Len(draws) = char_count
        \/ err # "none" /\ positions = <<>> /\ draws = <<>>

\* C19: the 3-character variant flag matters only for a circle with exactly
\* 3 characters: for a text of any other length, two renders that differ
\* only in the flag have the same cell size, gap and placements.
C19_FlagOnlyForThree ==
    (/\ Returned /\ kept.op = op
     /\ kept.shape = shape /\ kept.size = size
     /\ kept.char_count = char_count /\ kept.bbox = bbox
     /\ kept.layout_3char # layout_3char
     /\ char_count # 3) =>
        /\ kept.positions = positions
        /\ kept.char_size = char_size
        /\ kept.gap = gap
        /\ kept.font_size = font_size

C19_Witness ==
    /\ Returned /\ kept.op = op /\ shape = "circle"
    /\ kept.shape = shape /\ kept.size = size
    /\ kept.char_count = char_count /\ kept.bbox = bbox
    /\ kept.layout_3char = "horizontal" /\ layout_3char = "vertical"
    /\ char_count = 2 /\ Len(positions) = 2
    /\ positions[1].x < positions[2].x /\ positions[1].y = positions[2].y

\* a call by concurrent caller c has returned, and the call the sequential
\* caller made last, alone, had the same text length and variant flag
SameCallAlone(c) ==
    /\ inflight[c].pc = "done"
    /\ Rendered
    /\ char_count = inflight[c].char_count
    /\ layout_3char = inflight[c].layout_3char

C21_SafeExtent ==
    Rendered =>
        IF shape = "circle"
        THEN Abs(10000 * inner_radius - 4325 * size) < 4 * 10000
        ELSE Abs(10000 * inner_size - 2 * 4325 * size) < 2 * 4 * 10000

\* C22, as stated: for a square with `rows` rows and widest row maxCols the
\* cell size is the minimum of inner_size / (maxCols + (maxCols - 1) * 0.02)
\* and inner_size / (rows + (rows - 1) * 0.02), and the gap is 0.02 times the
\* cell size, as exact values.  With k the larger of maxCols and rows the
\* minimum is 50 * inner_size / (51 * k - 1).
C22_CellSizeExact ==
    (Rendered /\ shape = "square" /\ char_count >= 1) =>
        LET k == Max(MaxSeq(layout), Len(layout))
        IN  /\ char_size * (51 * k - 1) = 50 * inner_size
            /\ 100 * gap = 2 * char_size

\* C22, amended: the cell size is that minimum truncated to an integer and
\* the gap is 0.02 times the (integer) cell size, truncated to an integer.
C22_CellSizeTruncated ==
    (Rendered /\ shape = "square" /\ char_count >= 1) =>
        LET k == Max(MaxSeq(layout), Len(layout))
        IN  /\ char_size * (51 * k - 1) <= 50 * inner_size
            /\ 50 * inner_size < (char_size + 1) * (51 * k - 1)
            /\ 100 * gap <= 2 * char_size
            /\ 2 * char_size < 100 * (gap + 1)

C22_Witness ==
    /\ Rendered /\ shape = "square" /\ char_count = 10 /\ layout = <<3, 4, 3>>
    /\ size = DefaultSize /\ inner_size = 854 /\ char_size = 210 /\ gap = 4

\* C23: in every multi-row layout (square, circle with 4 or 5 characters)
\* row i (from 0) is centred at cy - total_height / 2 + char_size / 2 +
\* i * (char_size + gap), and character j (from 0) of a row of L characters
\* at cx - row_width / 2 + char_size / 2 + j * (char_size + gap), with
\* total_height = rows * char_size + (rows - 1) * gap and
\* row_width = L * char_size + (L - 1) * gap.
C23_RegularSpacing ==
    (/\ Rendered /\ positions # <<>>
     /\ shape = "square" \/ (shape = "circle" /\ char_count \in {4, 5})) =>
        LET plan == RowPlan
            rows == Len(plan)
            pitch == Scale * (char_size + gap)
            first_y == Scale * cy - Half * (rows * char_size + (rows - 1) * gap)
                       + Half * char_size
        IN  /\ SumSeq(plan) = Len(positions)
            /\ \A k \in Placed :
                    LET row == RowOfSlot(plan, k)
                        L == plan[row]
                        j == k - SlotsBefore(plan, row - 1) - 1
                        first_x == Scale * cx
                                   - Half * (L * char_size + (L - 1) * gap)
                                   + Half * char_size
                    IN  /\ positions[k].y = first_y + (row - 1) * pitch
                        /\ positions[k].x = first_x + j * pitch

\* C24: a 1-character text on a circle has a single placement, its target
\* centre is exactly (cx, cy), its cell size is 0.82 * (2 * inner_radius)
\* truncated to an integer, and the glyph size is 0.95 times the cell size
\* (truncated).
C24_OneChar ==
    (Rendered /\ shape = "circle" /\ char_count = 1) =>
        /\ Len(positions) = 1
        /\ positions[1].x = Scale * cx /\ positions[1].y = Scale * cy
        /\ 100 * char_size <= 164 * inner_radius
        /\ 164 * inner_radius < 100 * (char_size + 1)
        /\ 100 * font_size <= 95 * char_size
        /\ 95 * char_size < 100 * (font_size + 1)

\* C25: for every placement and any ink bounds (left, top, right, bottom) the
\* font answers, the draw origin plus the ink-bounds centre
\* ((left + right) / 2, (top + bottom) / 2) is exactly the target centre,
\* also when the ink bounds do not start at (0, 0).
C25_InkCentred ==
    Returned =>
        /\ Len(draws) = Len(positions)
        /\ \A k \in DOMAIN draws :
                /\ draws[k][1] + Half * (bbox[1] + bbox[3]) = positions[k].x
                /\ draws[k][2] + Half * (bbox[2] + bbox[4]) = positions[k].y

\* C26: for every canvas size, even or odd, the point (cx, cy) about which
\* the characters are laid out is the centre of the stroked boundary
\* outline, for the square and for the circle.
C26_OutlineCentred ==
    Rendered =>
        /\ outline[1] + outline[3] = 2 * cx
        /\ outline[2] + outline[4] = 2 * cy

\* ---------------------------------------------- pipeline and versions
\* the statuses of _execute_production_workflow, in the order it assigns them
Workflow ==
    <<"generating_image", "processing_image", "illustrator_work",
      "layer_review", "customer_confirm", "converting_bmp", "syncing_drive",
      "ready_to_print", "completed">>

\* _process_email has returned its PipelineResult
PipelineReturned == pipe.pc = "returned"

\* C27: every PipelineResult that _process_email returns has status
\* COMPLETED or FAILED, never one of the intermediate statuses, whichever
\* step raised and whatever the analysis verdict was.
C27_FinalStatus ==
    PipelineReturned => pipe.status \in {"completed", "failed"}

\* a result returned after a collaborator raised in the middle of the
\* production workflow
C27_Witness ==
    /\ PipelineReturned
    /\ pipe.raised
    /\ Len(pipe.trail) > 2
    /\ pipe.trail[Len(pipe.trail) - 1] = "converting_bmp"
    /\ pipe.status = "failed"

\* the position of a status in the workflow, 0 if it is not one of its statuses
WorkflowIndex(s) ==
    IF \E k \in DOMAIN Workflow : Workflow[k] = s
    THEN CHOOSE k \in DOMAIN Workflow : Workflow[k] = s
    ELSE 0

C29_CustomerEmailCompletes ==
    (/\ PipelineReturned
     /\ pipe.mail = "CustomerEmail"
     /\ pipe.images >= 1
     /\ pipe.verdict = "producible"
     /\ ~pipe.raised)
        => pipe.status = "completed" /\ pipe.completed_at

\* final_approved of an order only with its most recent review, if it has
\* any, an approved one
ApprovalBacked(ord) ==
    ord.final_approved =>
        \/ ord.layer_reviews = <<>>
        \/ LatestReview(ord.layer_reviews).approved

\* C30: after any sequence of create_order, add_file, add_layer_review and
\* approve_final calls on one order, final_approved is true only if the most
\* recent layer review of the order (by reviewed_at), when there is one, is
\* an approved one; and an approve_final call that returns False leaves
\* final_approved and current_stage as they were.
C30_ApprovalFollowsReview ==
    /\ [](\A o \in OrderIds : ApprovalBacked(vm.orders[o]))
    /\ [][(vm'.call = "approve_final" /\ ~vm'.ret) =>
            \A o \in OrderIds :
                /\ vm'.orders[o].final_approved = vm.orders[o].final_approved
                /\ vm'.orders[o].current_stage = vm.orders[o].current_stage]_vars


====
